---- MODULE Spec2Model ----
(***************************************************************************)
(* A model of the paged virtual-memory simulation of src/P6/simVM.c:       *)
(* struct VM, createVM, the address translation of real_address with its   *)
(* helpers, and the word accessors readInt and writeInt.                   *)
(*                                                                         *)
(* Memory and disk are arrays of words, as in the source; a byte pointer   *)
(* base + k*4 of the source is the word index k here.                      *)
(***************************************************************************)
EXTENDS Integers, FiniteSets, Sequences, TLC

(***************************************************************************)
(* Bounds of the model.                                                    *)
(***************************************************************************)
\* largest sizeVM, in pages, handed to createVM
MaxVM == 3
\* largest pageSize, in words, handed to createVM
MaxPageSize == 2
\* word values written are 0..MaxVal
MaxVal == 1
\* number of translation requests issued to one instance
MaxClock == 4
\* the same, in the specification of every use (SpecAny)
MaxClockAny == 2
\* sizeVM of the instances of SpecWide
WideVM == 4
\* number of translation requests issued to one instance of SpecWide
MaxClockWide == 5

(***************************************************************************)
(* Constants of the program.                                               *)
(***************************************************************************)
VM_ROUNDROBIN_REPLACEMENT == 0
VM_LRU_REPLACEMENT == 1
\* the start value of the minimum search in minindex
INT_MAX == 2147483647

Val == 0..MaxVal

VARIABLES
  status,     \* "none": createVM not yet called; "ok": a live handle;
              \* "crashed": the process was killed by a memory fault
  vm,         \* the struct VM behind the handle
  last,       \* the last call: its arguments, the path taken and its result
  written,    \* history: address -> value of the most recent writeInt (0 if none)
  accessed,   \* history: frame -> clock of the most recent request translated to it
  confined,   \* history: every request so far addressed a page in [0, sizeTLB)
  followed    \* history: how many requests of ExampleScript the requests so far
              \* have followed, from the first one on

vars == <<status, vm, last, written, accessed, confined, followed>>

(***************************************************************************)
(* Allocation: calloc returns zero-filled arrays.                          *)
(***************************************************************************)
INTS(n) == [i \in 0..(n - 1) |-> 0]

WORDS(n) == [i \in 0..(n - 1) |-> 0]

\* memcpy of n words from src[s0..] to dst[d0..].  A destination word outside
\* dst is no cell of the model; a source word outside src reads as 0 here and
\* the calling action replaces it by an arbitrary value.
memcpy(dst, d0, src, s0, n) ==
  [i \in DOMAIN dst |->
     IF i >= d0 /\ i < d0 + n
       THEN (IF (s0 + (i - d0)) \in DOMAIN src THEN src[s0 + (i - d0)] ELSE 0)
       ELSE dst[i]]

(***************************************************************************)
(* createVM: no constraint on the arguments is tested; every call returns  *)
(* a handle.                                                               *)
(***************************************************************************)
\* createVM without the loop that fills the TLB
createVM_NoTlbInit(sizeVM, sizePM, pageSize, sizeTLB, pageReplAlg, tlbReplAlg) ==
  [pagesize |-> pageSize, vpage |-> sizeVM,
   ppage |-> sizePM, palg |-> pageReplAlg,
   pvirt |-> [i \in 0..(sizePM - 1) |-> i], ptime |-> INTS(sizePM), dirty |-> INTS(sizePM),
   tlb |-> sizeTLB, tlbalg |-> tlbReplAlg,
   ptlb |-> INTS(sizeTLB), vtlb |-> INTS(sizeTLB), tlbtime |-> INTS(sizeTLB),
   pc |-> 0, tc |-> 0, dc |-> 0,
   rrp |-> 0, rrt |-> 0, timestamp |-> 0,
   mem |-> WORDS(sizePM * pageSize),
   disk |-> WORDS(sizeVM * pageSize)]

createVM(sizeVM, sizePM, pageSize, sizeTLB, pageReplAlg, tlbReplAlg) ==
  LET model == [pagesize |-> pageSize, vpage |-> sizeVM,
                ppage |-> sizePM, palg |-> pageReplAlg,
                pvirt |-> INTS(sizePM), ptime |-> INTS(sizePM), dirty |-> INTS(sizePM),
                tlb |-> sizeTLB, tlbalg |-> tlbReplAlg,
                ptlb |-> INTS(sizeTLB), vtlb |-> INTS(sizeTLB), tlbtime |-> INTS(sizeTLB),
                pc |-> 0, tc |-> 0, dc |-> 0,
                rrp |-> 0, rrt |-> 0, timestamp |-> 0,
                mem |-> WORDS(sizePM * pageSize),
                disk |-> WORDS(sizeVM * pageSize)]
  IN [model EXCEPT !.pvirt = [i \in 0..(sizePM - 1) |-> i],
                   !.ptlb = [i \in 0..(sizeTLB - 1) |-> i],
                   !.vtlb = [i \in 0..(sizeTLB - 1) |-> i]]

(***************************************************************************)
(* The helpers of the translation.  One that changes the struct returns    *)
(* the new struct, with its return value in ret when it has one.           *)
(***************************************************************************)
\* the first index of an ascending scan that satisfies a test
FirstOf(S) == CHOOSE i \in S : \A j \in S : i <= j

\* the scan of the TLB started at slot 1
lookup_in_tlb_and_mark_FromSlot1(model, pte) ==
  LET found == {i \in 1..(model.tlb - 1) : model.vtlb[i] = pte}
  IN IF found # {}
       THEN [model |-> [model EXCEPT !.tlbtime[FirstOf(found)] = model.timestamp],
             ret |-> model.ptlb[FirstOf(found)]]
       ELSE [model |-> model, ret |-> -1]

lookup_in_tlb_and_mark(model, pte) ==
  LET found == {i \in 0..(model.tlb - 1) : model.vtlb[i] = pte}
  IN IF found # {}
       THEN [model |-> [model EXCEPT !.tlbtime[FirstOf(found)] = model.timestamp],
             ret |-> model.ptlb[FirstOf(found)]]
       ELSE [model |-> model, ret |-> -1]

\* a page-table scan that finds nothing
lookup_in_mem_NeverFound(model, pte) == -1

lookup_in_mem(model, pte) ==
  LET found == {i \in 0..(model.ppage - 1) : model.pvirt[i] = pte}
  IN IF found # {} THEN FirstOf(found) ELSE -1

\* the word index into mem of word add of frame index
make_address(model, index, add) == index * model.pagesize + add

\* mark without the dirty flag
mark_NeverDirty(model, pte, dirty) ==
  IF pte \in DOMAIN model.ptime
    THEN [model EXCEPT !.ptime[pte] = model.timestamp]
    ELSE model

\* mark that sets the dirty flag on every access
mark_AlwaysDirty(model, pte, dirty) ==
  IF pte \in DOMAIN model.ptime
    THEN [model EXCEPT !.dirty[pte] = 1, !.ptime[pte] = model.timestamp]
    ELSE model

\* mark without the time stamp on a read
mark_StampOnWriteOnly(model, pte, dirty) ==
  IF pte \in DOMAIN model.ptime /\ dirty # 0
    THEN [model EXCEPT !.dirty[pte] = 1, !.ptime[pte] = model.timestamp]
    ELSE model

\* a frame index outside the arrays writes outside them: no cell of the model
mark(model, pte, dirty) ==
  IF pte \in DOMAIN model.ptime
    THEN [model EXCEPT !.dirty[pte] = IF dirty # 0 THEN 1 ELSE @,
                       !.ptime[pte] = model.timestamp]
    ELSE model

RECURSIVE minindex_loop(_, _, _, _, _)
minindex_loop(p, n, i, value, index) ==
  IF i >= n THEN index
  ELSE IF p[i] < value THEN minindex_loop(p, n, i + 1, p[i], i)
  ELSE minindex_loop(p, n, i + 1, value, index)

minindex(p, n) == minindex_loop(p, n, 0, INT_MAX, -1)

\* round robin returning the cursor after the advance
choose_page_PostAdvance(model) ==
  IF model.palg = 0
    THEN [model |-> [model EXCEPT !.rrp = (model.rrp + 1) % model.ppage],
          ret |-> (model.rrp + 1) % model.ppage]
    ELSE [model |-> model, ret |-> minindex(model.ptime, model.ppage)]

choose_page(model) ==
  IF model.palg = 0
    THEN LET rrp == (model.rrp + 1) % model.ppage
         IN [model |-> [model EXCEPT !.rrp = rrp],
             ret |-> (rrp + model.ppage - 1) % model.ppage]
    ELSE [model |-> model, ret |-> minindex(model.ptime, model.ppage)]

\* the TLB's round robin run on the page cursor
choose_tlb_PageCursor(model) ==
  IF model.tlbalg = 0
    THEN LET rrp == (model.rrp + 1) % model.tlb
         IN [model |-> [model EXCEPT !.rrp = rrp],
             ret |-> (rrp + model.tlb - 1) % model.tlb]
    ELSE [model |-> model, ret |-> minindex(model.tlbtime, model.tlb)]

choose_tlb(model) ==
  IF model.tlbalg = 0
    THEN LET rrt == (model.rrt + 1) % model.tlb
         IN [model |-> [model EXCEPT !.rrt = rrt],
             ret |-> (rrt + model.tlb - 1) % model.tlb]
    ELSE [model |-> model, ret |-> minindex(model.tlbtime, model.tlb)]

addtlb(model, mem, pte) ==
  LET c == choose_tlb(model)
  IN [c.model EXCEPT !.ptlb[c.ret] = mem,
                     !.vtlb[c.ret] = pte,
                     !.tlbtime[c.ret] = c.model.timestamp]

\* flushtlb without the scan for a slot of the frame
flushtlb_NoScan(model, mem, pte) == addtlb(model, mem, pte)

flushtlb(model, mem, pte) ==
  LET found == {i \in 0..(model.tlb - 1) : model.ptlb[i] = mem}
  IN IF found # {}
       THEN [model EXCEPT !.vtlb[FirstOf(found)] = pte]
       ELSE addtlb(model, mem, pte)

(***************************************************************************)
(* real_address: the translation of one request.  Its result carries, next *)
(* to the new struct and the returned word index (ret), the path taken,    *)
(* the frame (mem) and whether the code touched memory outside its arrays  *)
(* (oob): a frame index of the TLB that is no frame, or a disk slot of a   *)
(* page that is no page of the virtual memory.                             *)
(***************************************************************************)
\* the fault path with the write-back aimed at the incoming page's disk slot
fault_WriteBackToIncoming(model, pte, add, dirty) ==
  LET m2 == [model EXCEPT !.pc = @ + 1]
      c  == choose_page(m2)
      mem == c.ret
      S  == model.pagesize
      m3 == IF c.model.dirty[mem] # 0
              THEN [c.model EXCEPT !.dc = @ + 1,
                                   !.disk = memcpy(c.model.disk, pte * S,
                                                   c.model.mem, mem * S, S)]
              ELSE c.model
      m4 == [m3 EXCEPT !.pvirt[mem] = pte,
                       !.ptime[mem] = m3.timestamp,
                       !.dirty[mem] = 0]
      m5 == [m4 EXCEPT !.mem = memcpy(m4.mem, mem * S, m4.disk, m4.pvirt[mem] * S, S)]
  IN [model |-> mark(flushtlb(m5, mem, pte), mem, dirty),
      ret |-> make_address(model, mem, add),
      path |-> "fault", mem |-> mem,
      oob |-> (pte * S + S > model.vpage * S)]

\* the fault path counting the words written back, not the pages
fault_CountsWords(model, pte, add, dirty) ==
  LET m2 == [model EXCEPT !.pc = @ + 1]
      c  == choose_page(m2)
      mem == c.ret
      S  == model.pagesize
      m3 == IF c.model.dirty[mem] # 0
              THEN [c.model EXCEPT !.dc = @ + S,
                                   !.disk = memcpy(c.model.disk, c.model.pvirt[mem] * S,
                                                   c.model.mem, mem * S, S)]
              ELSE c.model
      m4 == [m3 EXCEPT !.pvirt[mem] = pte,
                       !.ptime[mem] = m3.timestamp,
                       !.dirty[mem] = 0]
      m5 == [m4 EXCEPT !.mem = memcpy(m4.mem, mem * S, m4.disk, m4.pvirt[mem] * S, S)]
  IN [model |-> mark(flushtlb(m5, mem, pte), mem, dirty),
      ret |-> make_address(model, mem, add),
      path |-> "fault", mem |-> mem,
      oob |-> \/ (c.model.dirty[mem] # 0
                   /\ c.model.pvirt[mem] * S + S > model.vpage * S)
              \/ pte * S + S > model.vpage * S]

\* the fault path without the copy of the incoming page from the disk
fault_NoPageIn(model, pte, add, dirty) ==
  LET m2 == [model EXCEPT !.pc = @ + 1]
      c  == choose_page(m2)
      mem == c.ret
      S  == model.pagesize
      m3 == IF c.model.dirty[mem] # 0
              THEN [c.model EXCEPT !.dc = @ + 1,
                                   !.disk = memcpy(c.model.disk, c.model.pvirt[mem] * S,
                                                   c.model.mem, mem * S, S)]
              ELSE c.model
      m4 == [m3 EXCEPT !.pvirt[mem] = pte,
                       !.ptime[mem] = m3.timestamp,
                       !.dirty[mem] = 0]
  IN [model |-> mark(flushtlb(m4, mem, pte), mem, dirty),
      ret |-> make_address(model, mem, add),
      path |-> "fault", mem |-> mem,
      oob |-> \/ (c.model.dirty[mem] # 0
                   /\ c.model.pvirt[mem] * S + S > model.vpage * S)
              \/ pte * S + S > model.vpage * S]

\* lines 220-236: the page is not resident
fault(model, pte, add, dirty) ==
  LET m2 == [model EXCEPT !.pc = @ + 1]
      c  == choose_page(m2)
      mem == c.ret
      S  == model.pagesize
      m3 == IF c.model.dirty[mem] # 0
              THEN [c.model EXCEPT !.dc = @ + 1,
                                   !.disk = memcpy(c.model.disk, c.model.pvirt[mem] * S,
                                                   c.model.mem, mem * S, S)]
              ELSE c.model
      m4 == [m3 EXCEPT !.pvirt[mem] = pte,
                       !.ptime[mem] = m3.timestamp,
                       !.dirty[mem] = 0]
      m5 == [m4 EXCEPT !.mem = memcpy(m4.mem, mem * S, m4.disk, m4.pvirt[mem] * S, S)]
  IN [model |-> mark(flushtlb(m5, mem, pte), mem, dirty),
      ret |-> make_address(model, mem, add),
      path |-> "fault", mem |-> mem,
      oob |-> \/ (c.model.dirty[mem] # 0
                   /\ c.model.pvirt[mem] * S + S > model.vpage * S)
              \/ pte * S + S > model.vpage * S]

real_address(model, address, dirty) ==
  LET m0  == [model EXCEPT !.timestamp = @ + 1]
      pte == address \div model.pagesize
      add == address % model.pagesize
      t   == lookup_in_tlb_and_mark(m0, pte)
  IN IF t.ret # -1
       THEN [model |-> mark(t.model, t.ret, dirty),
             ret |-> make_address(model, t.ret, add),
             path |-> "tlbhit", mem |-> t.ret,
             oob |-> t.ret \notin 0..(model.ppage - 1)]
       ELSE LET m1  == [t.model EXCEPT !.tc = @ + 1]
                mem == lookup_in_mem(m1, pte)
            IN IF mem # -1
                 THEN [model |-> addtlb(mark(m1, mem, dirty), mem, pte),
                       ret |-> make_address(model, mem, add),
                       path |-> "pthit", mem |-> mem,
                       oob |-> FALSE]
                 ELSE fault(m1, pte, add, dirty)

read_address(model, address) == real_address(model, address, 0)

\* the translation, then the store of the word (a store outside mem changes
\* no cell of the model)
write_address(model, address, value) ==
  LET r == real_address(model, address, 1)
  IN IF r.ret \in DOMAIN r.model.mem
       THEN [r EXCEPT !.model.mem[r.ret] = value]
       ELSE r

\* readInt's result: the word behind the returned address
readInt(r) == r.model.mem[r.ret]

(***************************************************************************)
(* The calls.                                                              *)
(***************************************************************************)
NullVM == createVM(0, 0, 0, 0, 0, 0)

NoCall == [op |-> "none", address |-> 0, value |-> 0, path |-> "none", mem |-> -1]

Init ==
  /\ status = "none"
  /\ vm = NullVM
  /\ last = NoCall
  /\ written = <<>>
  /\ accessed = <<>>
  /\ confined = TRUE
  /\ followed = 0

\* the constraints createVM's comment documents (lines 40-49)
IsPowerOfTwo(n) == n \in {1, 2, 4, 8, 16, 32}

\* sizeVM * pageSize <= 2^32, written with numbers that fit 32 bits
FitsAddressSpace(sizeVM, pageSize) ==
  sizeVM * pageSize = 0 \/ (sizeVM * pageSize - 1) \div 65536 < 65536

Documented(sizeVM, sizePM, pageSize, sizeTLB) ==
  /\ sizePM < sizeVM
  /\ IsPowerOfTwo(pageSize)
  /\ FitsAddressSpace(sizeVM, pageSize)
  /\ sizeTLB <= sizePM

CreateVM(sizeVM, sizePM, pageSize, sizeTLB, pageReplAlg, tlbReplAlg) ==
  /\ status = "none"
  /\ status' = "ok"
  /\ vm' = createVM(sizeVM, sizePM, pageSize, sizeTLB, pageReplAlg, tlbReplAlg)
  /\ last' = [NoCall EXCEPT !.op = "createVM"]
  /\ written' = [a \in 0..(sizeVM * pageSize - 1) |-> 0]
  /\ accessed' = [f \in 0..(sizePM - 1) |-> 0]
  /\ confined' = TRUE
  /\ followed' = 0

\* the requests of the worked example: writeInt(0, 7), writeInt(2, 9),
\* readInt(4), readInt(0)
ExampleScript ==
  << [op |-> "writeInt", address |-> 0, value |-> 7],
     [op |-> "writeInt", address |-> 2, value |-> 9],
     [op |-> "readInt", address |-> 4, value |-> 0],
     [op |-> "readInt", address |-> 0, value |-> 0] >>

\* followed after the request op(address, value) (value 0 for a read)
Follow(op, address, value) ==
  followed' = IF /\ followed = vm.timestamp
                 /\ followed < Len(ExampleScript)
                 /\ ExampleScript[followed + 1] =
                      [op |-> op, address |-> address, value |-> value]
                THEN followed + 1
                ELSE followed

\* the history variables after a request for address that took result r
History(address, r) ==
  /\ accessed' = IF r.mem \in DOMAIN accessed
                   THEN [accessed EXCEPT ![r.mem] = r.model.timestamp]
                   ELSE accessed
  /\ confined' = (confined /\ address \div vm.pagesize < vm.tlb)

\* a request whose translation stays inside the arrays
ReadInt(address) ==
  /\ status = "ok"
  /\ LET r == read_address(vm, address)
     IN /\ ~r.oob
        /\ vm' = r.model
        /\ last' = [op |-> "readInt", address |-> address, value |-> readInt(r),
                    path |-> r.path, mem |-> r.mem]
        /\ History(address, r)
        /\ Follow("readInt", address, 0)
  /\ UNCHANGED <<status, written>>

WriteInt(address, value) ==
  /\ status = "ok"
  /\ LET r == write_address(vm, address, value)
     IN /\ ~r.oob
        /\ vm' = r.model
        /\ last' = [op |-> "writeInt", address |-> address, value |-> value,
                    path |-> r.path, mem |-> r.mem]
        /\ History(address, r)
        /\ Follow("writeInt", address, value)
  /\ written' = IF address \in DOMAIN written
                  THEN [written EXCEPT ![address] = value]
                  ELSE written
  /\ UNCHANGED status

(***************************************************************************)
(* Spec: the documented use.  createVM is called with arguments that meet  *)
(* the documented constraints, and every address is in                     *)
(* [0, sizeVM*pageSize).                                                   *)
(***************************************************************************)
Sizes == 1..MaxVM
PageSizes == 1..MaxPageSize
Algs == {VM_ROUNDROBIN_REPLACEMENT, VM_LRU_REPLACEMENT}

InRange == 0..(vm.vpage * vm.pagesize - 1)

Create ==
  \E sizeVM \in Sizes, sizePM \in Sizes, pageSize \in PageSizes, sizeTLB \in Sizes,
     pageReplAlg \in Algs, tlbReplAlg \in Algs :
       /\ Documented(sizeVM, sizePM, pageSize, sizeTLB)
       /\ CreateVM(sizeVM, sizePM, pageSize, sizeTLB, pageReplAlg, tlbReplAlg)

Read == vm.timestamp < MaxClock /\ \E address \in InRange : ReadInt(address)

Write ==
  vm.timestamp < MaxClock /\ \E address \in InRange, value \in Val : WriteInt(address, value)

Next == Create \/ Read \/ Write

Spec == Init /\ [][Next]_vars

(***************************************************************************)
(* A request whose translation leaves the arrays (r.oob) has undefined     *)
(* behaviour.  The outcomes modelled are the ones a build produces: the    *)
(* process is killed by the memory fault, or it runs on, a read outside    *)
(* an array yielding arbitrary words (junk) and a write outside an array   *)
(* changing no cell of the model.                                          *)
(***************************************************************************)
\* the struct after translation r of a request for page pte, the words read
\* from a disk slot outside the disk being junk
Garbled(r, pte, junk) ==
  LET S == r.model.pagesize
  IN IF r.path = "fault" /\ pte * S + S > r.model.vpage * S
       THEN [r.model EXCEPT !.mem = [i \in DOMAIN @ |->
                                       IF i >= r.mem * S /\ i < r.mem * S + S
                                         THEN junk[i - r.mem * S] ELSE @[i]]]
       ELSE r.model

Killed(op, address, value) ==
  /\ status = "ok"
  /\ real_address(vm, address, IF op = "writeInt" THEN 1 ELSE 0).oob
  /\ status' = "crashed"
  /\ last' = [op |-> op, address |-> address, value |-> value,
              path |-> "killed", mem |-> -1]
  /\ UNCHANGED <<vm, written, accessed, confined, followed>>

ReadIntOutside(address, junk) ==
  /\ status = "ok"
  /\ LET r == read_address(vm, address)
         m == Garbled(r, address \div vm.pagesize, junk)
     IN /\ r.oob
        /\ vm' = m
        /\ last' = [op |-> "readInt", address |-> address,
                    value |-> IF r.ret \in DOMAIN m.mem THEN m.mem[r.ret]
                              ELSE junk[address % vm.pagesize],
                    path |-> r.path, mem |-> r.mem]
        /\ History(address, r)
        /\ Follow("readInt", address, 0)
  /\ UNCHANGED <<status, written>>

WriteIntOutside(address, value, junk) ==
  /\ status = "ok"
  /\ LET r == real_address(vm, address, 1)
         m == Garbled(r, address \div vm.pagesize, junk)
     IN /\ r.oob
        /\ vm' = IF r.ret \in DOMAIN m.mem THEN [m EXCEPT !.mem[r.ret] = value] ELSE m
        /\ last' = [op |-> "writeInt", address |-> address, value |-> value,
                    path |-> r.path, mem |-> r.mem]
        /\ History(address, r)
        /\ Follow("writeInt", address, value)
  /\ written' = IF address \in DOMAIN written
                  THEN [written EXCEPT ![address] = value]
                  ELSE written
  /\ UNCHANGED status

(***************************************************************************)
(* SpecAny: every use the code accepts.  createVM is called with any       *)
(* sizes, and an address may lie in the page after the virtual memory.     *)
(***************************************************************************)
AnyPageSizes == 1..(MaxPageSize + 1)

AnyAddress == 0..(vm.vpage * vm.pagesize + vm.pagesize - 1)

JunkPages == [0..(vm.pagesize - 1) -> Val]

CreateAny ==
  \E sizeVM \in Sizes, sizePM \in Sizes, pageSize \in AnyPageSizes, sizeTLB \in Sizes,
     pageReplAlg \in Algs, tlbReplAlg \in Algs :
       CreateVM(sizeVM, sizePM, pageSize, sizeTLB, pageReplAlg, tlbReplAlg)

ReadAny == vm.timestamp < MaxClockAny /\ \E address \in AnyAddress : ReadInt(address)

WriteAny ==
  vm.timestamp < MaxClockAny
    /\ \E address \in AnyAddress, value \in Val : WriteInt(address, value)

ReadOutside ==
  vm.timestamp < MaxClockAny
    /\ \E address \in AnyAddress, junk \in JunkPages : ReadIntOutside(address, junk)

WriteOutside ==
  vm.timestamp < MaxClockAny
    /\ \E address \in AnyAddress, value \in Val, junk \in JunkPages :
         WriteIntOutside(address, value, junk)

Kill ==
  vm.timestamp < MaxClockAny
    /\ \E op \in {"readInt", "writeInt"}, address \in AnyAddress, value \in Val :
         Killed(op, address, IF op = "writeInt" THEN value ELSE 0)

NextAny == CreateAny \/ ReadAny \/ WriteAny \/ ReadOutside \/ WriteOutside \/ Kill

SpecAny == Init /\ [][NextAny]_vars

(***************************************************************************)
(* SpecExample: the instance of the worked example, createVM(4, 2, 2, 1,   *)
(* round robin, round robin), with any requests made of the example's      *)
(* addresses and values.                                                   *)
(***************************************************************************)
ExampleAddresses == {ExampleScript[i].address : i \in DOMAIN ExampleScript}

ExampleValues ==
  {ExampleScript[i].value : i \in {j \in DOMAIN ExampleScript : ExampleScript[j].op = "writeInt"}}

CreateExample ==
  CreateVM(4, 2, 2, 1, VM_ROUNDROBIN_REPLACEMENT, VM_ROUNDROBIN_REPLACEMENT)

ReadExample ==
  vm.timestamp < MaxClock /\ \E address \in ExampleAddresses : ReadInt(address)

WriteExample ==
  vm.timestamp < MaxClock
    /\ \E address \in ExampleAddresses, value \in ExampleValues : WriteInt(address, value)

NextExample == CreateExample \/ ReadExample \/ WriteExample

SpecExample == Init /\ [][NextExample]_vars

(***************************************************************************)
(* SpecWide: instances with more frames than TLB slots can cover, the      *)
(* case in which the TLB evicts: sizeVM = WideVM pages of one word,        *)
(* sizePM = WideVM - 1, sizeTLB in 1..sizePM, in-range addresses.          *)
(***************************************************************************)
CreateWide ==
  \E sizeTLB \in 1..(WideVM - 1), pageReplAlg \in Algs, tlbReplAlg \in Algs :
    CreateVM(WideVM, WideVM - 1, 1, sizeTLB, pageReplAlg, tlbReplAlg)

ReadWide ==
  vm.timestamp < MaxClockWide /\ \E address \in InRange : ReadInt(address)

WriteWide ==
  vm.timestamp < MaxClockWide /\ \E address \in InRange : WriteInt(address, MaxVal)

NextWide == CreateWide \/ ReadWide \/ WriteWide

SpecWide == Init /\ [][NextWide]_vars

(***************************************************************************)
(* What the claims speak of.                                               *)
(***************************************************************************)
\* the step is a request that returned
IsRequest == status = "ok" /\ status' = "ok" /\ last'.op \in {"readInt", "writeInt"}

\* the page and the word of the step's request, in the struct before it
ReqPage == last'.address \div vm.pagesize
ReqWord == last'.address % vm.pagesize

InTlb(model, pte) == \E i \in DOMAIN model.vtlb : model.vtlb[i] = pte
Resident(model, pte) == \E f \in DOMAIN model.pvirt : model.pvirt[f] = pte
FrameOf(model, pte) == CHOOSE f \in DOMAIN model.pvirt : model.pvirt[f] = pte

TlbHitStep == IsRequest /\ InTlb(vm, ReqPage)
PageTableHitStep == IsRequest /\ ~InTlb(vm, ReqPage) /\ Resident(vm, ReqPage)
PageFaultStep == IsRequest /\ ~InTlb(vm, ReqPage) /\ ~Resident(vm, ReqPage)

\* the frame a page fault step loaded the page into
Victim == FrameOf(vm', ReqPage)

\* C1: under the documented configurations (sizePM < sizeVM, 1 <= sizeTLB <=
\* sizePM), both policies, a readInt of an in-range address returns the value of
\* the most recent writeInt to that address, or 0 if it was never written, also
\* when its page was evicted and faulted back in since.
C1_ReadYourWrites ==
  (status = "ok" /\ last.op = "readInt") => last.value = written[last.address]

\* a read that faulted its page back in and returned a written, non-zero value
C1_Witness ==
  /\ status = "ok" /\ last.op = "readInt" /\ last.path = "fault"
  /\ last.value # 0 /\ last.value = written[last.address]

\* C2: with sizeTLB <= sizePM, every TLB slot (frame f, page p) names a frame
\* whose resident page is p, so no lookup returns a frame that holds another page.
C2_TlbCoherence ==
  status = "ok" =>
    \A i \in DOMAIN vm.ptlb :
      vm.ptlb[i] \in DOMAIN vm.pvirt /\ vm.pvirt[vm.ptlb[i]] = vm.vtlb[i]

\* a fault whose victim frame had a TLB slot: the slot now maps the new page
C2_Witness ==
  /\ status = "ok" /\ last.path = "fault" /\ vm.tlb >= 2 /\ vm.pc >= 2
  /\ \E i \in DOMAIN vm.ptlb :
       vm.ptlb[i] = last.mem /\ vm.vtlb[i] = last.address \div vm.pagesize

\* C3: a read or write of an address >= sizeVM*pageSize terminates the program;
\* it increments no counter, selects no victim, touches no frame or disk slot
\* and returns no physical address.  (Stated for the instances that meet the
\* documented constraints, and with any end of the program counted as
\* termination.)
C3_OutOfRangeFatal ==
  [][(/\ status = "ok"
      /\ Documented(vm.vpage, vm.ppage, vm.pagesize, vm.tlb)
      /\ last'.op \in {"readInt", "writeInt"}
      /\ last'.address >= vm.vpage * vm.pagesize)
       => (status' # "ok" /\ vm' = vm)]_vars

\* C4: createVM returns a handle only when sizePM < sizeVM, pageSize is a power
\* of two and sizeVM*pageSize <= 2^32.
C4_ConstructionRejection ==
  status # "none" =>
    /\ vm.ppage < vm.vpage
    /\ IsPowerOfTwo(vm.pagesize)
    /\ FitsAddressSpace(vm.vpage, vm.pagesize)

\* C5: the counters per translation path.  TLB hit: no counter changes.  TLB
\* miss with the page resident: tc + 1, pc and dc unchanged, no resident page
\* and no disk word changes, and memory changes only by the word a write
\* stores.  TLB miss with the page not resident: tc + 1 and pc + 1.
C5_Step ==
  /\ TlbHitStep =>
       vm'.tc = vm.tc /\ vm'.pc = vm.pc /\ vm'.dc = vm.dc
  /\ PageTableHitStep =>
       /\ vm'.tc = vm.tc + 1 /\ vm'.pc = vm.pc /\ vm'.dc = vm.dc
       /\ vm'.pvirt = vm.pvirt /\ vm'.disk = vm.disk
       /\ vm'.mem = IF last'.op = "writeInt"
                      THEN [vm.mem EXCEPT ![FrameOf(vm, ReqPage) * vm.pagesize + ReqWord]
                                            = last'.value]
                      ELSE vm.mem
  /\ PageFaultStep =>
       vm'.tc = vm.tc + 1 /\ vm'.pc = vm.pc + 1

C5_CounterRules == [][C5_Step]_vars

\* a write that missed the TLB and hit the page table, after an earlier fault
C5_Witness ==
  status = "ok" /\ last.op = "writeInt" /\ last.path = "pthit" /\ vm.pc >= 1

\* C6: on a page fault dc grows by 1 exactly when the victim frame is dirty;
\* then the victim's words are copied to the disk slot of the page that was
\* resident in it, and only that slot changes; a clean victim leaves dc and
\* the disk unchanged; the incoming page is loaded from the disk after that.
C6_Step ==
  PageFaultStep =>
    LET S    == vm.pagesize
        old  == vm.pvirt[Victim]
        isDirty == vm.dirty[Victim] # 0
    IN /\ vm'.dc = vm.dc + (IF isDirty THEN 1 ELSE 0)
       /\ isDirty =>
            vm'.disk = [i \in DOMAIN vm.disk |->
                          IF i >= old * S /\ i < old * S + S
                            THEN vm.mem[Victim * S + (i - old * S)]
                            ELSE vm.disk[i]]
       /\ ~isDirty => vm'.disk = vm.disk
       /\ \A k \in 0..(S - 1) :
            vm'.mem[Victim * S + k] =
              IF last'.op = "writeInt" /\ k = ReqWord
                THEN last'.value
                ELSE vm'.disk[ReqPage * S + k]

C6_WriteBack == [][C6_Step]_vars

\* a fault that wrote a dirty victim back, after a fault with a clean victim
C6_Witness ==
  /\ status = "ok" /\ last.path = "fault" /\ vm.dc >= 1 /\ vm.pc > vm.dc
  /\ \E a \in DOMAIN vm.disk : vm.disk[a] # 0

\* C7: with round-robin page replacement the k-th page fault (k = 0, 1, ...)
\* evicts frame k mod sizePM, whatever was accessed between the faults.
C7_RoundRobin ==
  [][(PageFaultStep /\ vm.palg = VM_ROUNDROBIN_REPLACEMENT)
       => Victim = vm.pc % vm.ppage]_vars

\* the third fault of a two-frame instance, back at frame 0, with a hit between
C7_Witness ==
  /\ status = "ok" /\ vm.palg = VM_ROUNDROBIN_REPLACEMENT /\ vm.ppage = 2
  /\ last.path = "fault" /\ vm.pc = 3 /\ vm.timestamp > vm.pc /\ last.mem = 0

\* C8: with LRU page replacement a page fault evicts the frame whose most
\* recent access (0 if none) has the smallest clock value, the lowest frame
\* index among several such frames.
C8_Lru ==
  [][(PageFaultStep /\ vm.palg = VM_LRU_REPLACEMENT)
       => \A g \in DOMAIN accessed :
            \/ accessed[Victim] < accessed[g]
            \/ (accessed[Victim] = accessed[g] /\ Victim <= g)]_vars

\* an LRU fault that evicted frame 1 although frame 0 is the round-robin turn
C8_Witness ==
  /\ status = "ok" /\ vm.palg = VM_LRU_REPLACEMENT /\ vm.ppage = 2
  /\ last.path = "fault" /\ last.mem = 1 /\ vm.pc = 1 /\ vm.timestamp >= 3

\* C9: from construction on, requests whose addresses all lie in the pages
\* [0, sizeTLB) leave tc, pc and dc at 0, under both policies.
C9_WarmPath ==
  (status = "ok" /\ confined) => (vm.tc = 0 /\ vm.pc = 0 /\ vm.dc = 0)

\* three requests, the last a write, to the pages of a two-slot TLB
C9_Witness ==
  /\ status = "ok" /\ confined /\ vm.tlb >= 2 /\ vm.timestamp >= 3
  /\ last.op = "writeInt" /\ last.address \div vm.pagesize = 1

\* C10: right after createVM frame i holds page i, clean, with time stamp 0;
\* TLB slot j maps page j to frame j; the counters, both cursors and the clock
\* are 0; every word of memory and disk is 0.
C10_InitialState ==
  last.op = "createVM" =>
    /\ \A i \in 0..(vm.ppage - 1) :
         vm.pvirt[i] = i /\ vm.dirty[i] = 0 /\ vm.ptime[i] = 0
    /\ \A j \in 0..(vm.tlb - 1) : vm.vtlb[j] = j /\ vm.ptlb[j] = j
    /\ vm.pc = 0 /\ vm.tc = 0 /\ vm.dc = 0
    /\ vm.rrp = 0 /\ vm.rrt = 0 /\ vm.timestamp = 0
    /\ \A a \in DOMAIN vm.mem : vm.mem[a] = 0
    /\ \A a \in DOMAIN vm.disk : vm.disk[a] = 0
    /\ DOMAIN vm.mem = 0..(vm.ppage * vm.pagesize - 1)
    /\ DOMAIN vm.disk = 0..(vm.vpage * vm.pagesize - 1)

\* a fresh instance of two frames, two TLB slots and two-word pages
C10_Witness ==
  last.op = "createVM" /\ vm.ppage >= 2 /\ vm.tlb >= 2 /\ vm.pagesize >= 2

\* C11: for createVM(4, 2, 2, 1, round robin, round robin) followed by
\* writeInt(0, 7), writeInt(2, 9), readInt(4), readInt(0) the counters
\* (pc, tc, dc) after the steps are (0,0,0), (0,1,0), (1,2,1), (2,3,2); the
\* third request evicts frame 0, the fourth frame 1, and the last read
\* returns 7.
ExampleCounters == << <<0, 0, 0>>, <<0, 1, 0>>, <<1, 2, 1>>, <<2, 3, 2>> >>

C11_Example ==
  (/\ status = "ok" /\ followed >= 1 /\ followed = vm.timestamp
   /\ <<vm.vpage, vm.ppage, vm.pagesize, vm.tlb, vm.palg, vm.tlbalg>>
        = <<4, 2, 2, 1, VM_ROUNDROBIN_REPLACEMENT, VM_ROUNDROBIN_REPLACEMENT>>)
    => /\ <<vm.pc, vm.tc, vm.dc>> = ExampleCounters[followed]
       /\ followed = 3 => (last.path = "fault" /\ last.mem = 0 /\ vm.pvirt[0] = 2)
       /\ followed = 4 => (last.path = "fault" /\ last.mem = 1 /\ vm.pvirt[1] = 0
                           /\ last.value = 7)

\* the state after the four requests of the example
C11_Witness ==
  status = "ok" /\ followed = 4 /\ vm.timestamp = 4 /\ last.op = "readInt"

\* the TLB slots that name the frame a page fault step loaded the page into
VictimSlots == {i \in DOMAIN vm.ptlb : vm.ptlb[i] = Victim}

\* the slot the TLB's policy selects in the struct before the step
PolicySlot ==
  IF vm.tlbalg = VM_ROUNDROBIN_REPLACEMENT
    THEN vm.rrt
    ELSE CHOOSE j \in DOMAIN vm.tlbtime :
           \A k \in DOMAIN vm.tlbtime :
             \/ vm.tlbtime[j] < vm.tlbtime[k]
             \/ (vm.tlbtime[j] = vm.tlbtime[k] /\ j <= k)

\* C12: when the victim frame of a page fault is named by a TLB slot, after the
\* fault that slot holds the incoming page and its time stamp is the current
\* clock value.
C12_InPlaceRefresh ==
  [][PageFaultStep =>
       \A i \in VictimSlots :
         vm'.vtlb[i] = ReqPage /\ vm'.tlbtime[i] = vm'.timestamp]_vars

\* C13: a page fault changes one TLB slot.  If a slot names the victim frame,
\* only that slot's page is rewritten and the TLB cursor stays; otherwise the
\* slot the TLB's own policy selects becomes (victim frame, page).  The frame
\* and page of every other slot are unchanged.
C13_Step ==
  PageFaultStep =>
    IF VictimSlots # {}
      THEN /\ \E i \in VictimSlots : vm'.vtlb = [vm.vtlb EXCEPT ![i] = ReqPage]
           /\ vm'.ptlb = vm.ptlb
           /\ vm'.rrt = vm.rrt
      ELSE /\ vm'.vtlb = [vm.vtlb EXCEPT ![PolicySlot] = ReqPage]
           /\ vm'.ptlb = [vm.ptlb EXCEPT ![PolicySlot] = Victim]

C13_OneSlot == [][C13_Step]_vars

\* the only miss so far is a fault whose victim frame had no slot: the TLB's
\* round robin chose slot 0 of 2 and advanced
C13_Witness ==
  /\ status = "ok" /\ last.path = "fault" /\ vm.tlb = 2
  /\ vm.tlbalg = VM_ROUNDROBIN_REPLACEMENT
  /\ vm.tc = 1 /\ vm.pc = 1 /\ vm.rrt = 1
  /\ vm.ptlb[0] = last.mem /\ vm.vtlb[0] = last.address \div vm.pagesize

\* C14: no page is resident in two frames, and every frame's resident page is
\* in [0, sizeVM).
C14_ResidencyUnique ==
  status = "ok" =>
    /\ \A f, g \in DOMAIN vm.pvirt : vm.pvirt[f] = vm.pvirt[g] => f = g
    /\ \A f \in DOMAIN vm.pvirt : vm.pvirt[f] \in 0..(vm.vpage - 1)

\* two faults have replaced the pages of a two-frame instance
C14_Witness ==
  /\ status = "ok" /\ vm.ppage >= 2 /\ vm.pc >= 2
  /\ \E f \in DOMAIN vm.pvirt : vm.pvirt[f] >= vm.ppage

\* C15: the dirty flag.  After a page fault the victim's flag is the write
\* flag of the request; a request that finds its page resident sets the
\* frame's flag if it is a write and leaves it otherwise; no other frame's
\* flag changes.  (With all flags clear at construction: a flag is set exactly
\* when a write was translated to the frame since its page was installed.)
C15_Step ==
  IsRequest =>
    LET f == FrameOf(vm', ReqPage)
        w == IF last'.op = "writeInt" THEN 1 ELSE 0
    IN \A g \in DOMAIN vm.dirty :
         vm'.dirty[g] = IF g # f THEN vm.dirty[g]
                        ELSE IF PageFaultStep THEN w
                        ELSE IF w = 1 THEN 1
                        ELSE vm.dirty[g]

C15_DirtyFlag == [][C15_Step]_vars

\* a read that hit a frame written earlier, after a fault: the flag stays set
C15_Witness ==
  /\ status = "ok" /\ last.op = "readInt" /\ last.path = "tlbhit"
  /\ vm.dirty[last.mem] = 1 /\ vm.pc >= 1

\* C16: the two cursors.  With round-robin TLB replacement a TLB install that
\* goes through victim selection (a page-table hit, or a fault whose victim
\* frame no slot names) overwrites the slot at the TLB cursor and advances it
\* by one modulo sizeTLB, so that the k-th such install picks slot k mod
\* sizeTLB; no other step moves the TLB cursor.  The page cursor advances on
\* a page fault under round-robin page replacement and on no other step.
C16_Step ==
  IsRequest =>
    LET selects == PageTableHitStep \/ (PageFaultStep /\ VictimSlots = {})
    IN /\ (vm.tlbalg = VM_ROUNDROBIN_REPLACEMENT /\ selects) =>
            /\ vm'.rrt = (vm.rrt + 1) % vm.tlb
            /\ vm'.vtlb = [vm.vtlb EXCEPT ![vm.rrt] = ReqPage]
            /\ vm'.ptlb = [vm.ptlb EXCEPT ![vm.rrt] = FrameOf(vm', ReqPage)]
       /\ ~(vm.tlbalg = VM_ROUNDROBIN_REPLACEMENT /\ selects) => vm'.rrt = vm.rrt
       /\ vm'.rrp = IF PageFaultStep /\ vm.palg = VM_ROUNDROBIN_REPLACEMENT
                      THEN (vm.rrp + 1) % vm.ppage
                      ELSE vm.rrp

C16_Cursors == [][C16_Step]_vars

\* a page-table hit moved the TLB cursor of a two-slot TLB on, after page
\* faults had moved the page cursor
C16_Witness ==
  /\ status = "ok" /\ last.path = "pthit" /\ vm.tlb = 2
  /\ vm.tlbalg = VM_ROUNDROBIN_REPLACEMENT /\ vm.palg = VM_ROUNDROBIN_REPLACEMENT
  /\ vm.pc >= 2 /\ vm.rrp = 2 /\ vm.rrt = 1

\* C17: for every instance whose arguments meet sizePM < sizeVM, a power-of-two
\* page size and sizeVM*pageSize <= 2^32, whatever sizeTLB, the translation of
\* an in-range address returns a frame in [0, sizePM) whose resident page is
\* the requested page.
C17_LandsInMemory ==
  (/\ status = "ok" /\ last.op \in {"readInt", "writeInt"}
   /\ vm.ppage < vm.vpage /\ IsPowerOfTwo(vm.pagesize)
   /\ FitsAddressSpace(vm.vpage, vm.pagesize)
   /\ last.address < vm.vpage * vm.pagesize)
    => /\ last.mem \in 0..(vm.ppage - 1)
       /\ vm.pvirt[last.mem] = last.address \div vm.pagesize

\* C18: dc <= pc <= tc <= clock after every step; no counter decreases; the
\* clock grows by one with every request (it is 0 at construction).
C18_Step ==
  /\ vm'.dc <= vm'.pc /\ vm'.pc <= vm'.tc /\ vm'.tc <= vm'.timestamp
  /\ status = "ok" =>
       /\ vm'.dc >= vm.dc /\ vm'.pc >= vm.pc /\ vm'.tc >= vm.tc
       /\ vm'.timestamp = vm.timestamp + 1

C18_CounterOrder == [][C18_Step]_vars

\* all four differ: a TLB hit, a page-table hit, a dirty and a clean eviction
C18_Witness ==
  /\ status = "ok" /\ 1 <= vm.dc /\ vm.dc < vm.pc /\ vm.pc < vm.tc
  /\ vm.tc < vm.timestamp

\* C19: with sizeTLB <= sizePM no two TLB slots hold the same frame or the same
\* page; so for a resident page that no slot holds, no slot names its frame,
\* and the install by plain victim selection (addtlb, as on the page-table hit
\* path) gives the TLB that the frame-match-then-evict install (flushtlb) gives.
C19_TlbUnique ==
  status = "ok" =>
    /\ \A i, j \in DOMAIN vm.ptlb :
         (vm.ptlb[i] = vm.ptlb[j] \/ vm.vtlb[i] = vm.vtlb[j]) => i = j
    /\ \A f \in DOMAIN vm.pvirt :
         ~InTlb(vm, vm.pvirt[f]) =>
           /\ \A i \in DOMAIN vm.ptlb : vm.ptlb[i] # f
           /\ addtlb(vm, f, vm.pvirt[f]) = flushtlb(vm, f, vm.pvirt[f])

\* a page-table hit installed a translation into a TLB of two slots
C19_Witness ==
  status = "ok" /\ last.path = "pthit" /\ vm.tlb >= 2 /\ vm.pc >= 1

\* C20: with sizeTLB <= sizePM every frame whose dirty flag is clear holds,
\* word for word, the disk slot of its resident page.
C20_CleanMirrorsDisk ==
  status = "ok" =>
    \A f \in DOMAIN vm.pvirt :
      vm.dirty[f] = 0 =>
        \A k \in 0..(vm.pagesize - 1) :
          vm.mem[f * vm.pagesize + k] = vm.disk[vm.pvirt[f] * vm.pagesize + k]

\* a clean frame with a written word: written, evicted, paged in by a read
C20_Witness ==
  /\ status = "ok" /\ last.op = "readInt" /\ last.path = "fault"
  /\ vm.dirty[last.mem] = 0
  /\ \E k \in 0..(vm.pagesize - 1) : vm.mem[last.mem * vm.pagesize + k] # 0

====
